---- MODULE Spec2Model ----
(***************************************************************************)
(* State-machine model of celux::Encoder (src/CeLux/backends/Encoder.cpp). *)
(*                                                                         *)
(* Two Encoder instances share one heap of format contexts (with their     *)
(* sink), codec contexts (with the frames they buffer) and packet buffers. *)
(* The codec, the muxer and the pixel converter are external: their        *)
(* answers are drawn nondeterministically from the answers their API       *)
(* documents.  One caller thread drives the instances, so a single program *)
(* counter says which loop, if any, is running.                            *)
(***************************************************************************)
EXTENDS Integers, Sequences, FiniteSets, TLC

\* ----------------------------------------------------------------- bounds
\* Number of format/codec context pairs initialize may allocate in a run.
MaxCtx == 2
\* Cap on the presentation-timestamp counter (frames stamped per instance).
MaxPts == 2
\* Frame rate of the encoded video (props.fps); the codec time base is 1/Fps.
Fps == 30
\* Largest number of frames of a video a VideoReader opens.
MaxFrames == 3

\* ------------------------------------------------------------- constants
NULL == 0
\* Denominator of the time base avformat_new_stream gives a new stream
\* (1/90000) until initialize overwrites it.
DefaultStreamDen == 90000
\* Stands for INT64_MIN, which av_rescale_q returns for a time base with a
\* zero denominator and which is AV_NOPTS_VALUE.
AV_NOPTS_VALUE == -1

Inst == {1, 2}
CtxId == 1..MaxCtx
\* Denominators (numerator 1) the container format of a run may give the
\* stream when the header is written: the codec's own, and one that is not
\* a multiple of it.
StreamDens == {Fps, 1000}
\* A wider choice for runs without failures: integer multiples of the
\* codec's denominator (1/90000 for 1/30) and denominators that are not.
RescaleDens == {Fps, 3000 * Fps, 1000, 50}

VARIABLES
    \* --- fields of each Encoder instance
    exists,      \* the instance is constructed and not yet destroyed
    converter,   \* the instance owns a pixel converter
    formatCtx,   \* id of the owned format context, or NULL
    codecCtx,    \* id of the owned codec context, or NULL
    hwDeviceCtx, \* hardware device context, or NULL
    hwFramesCtx, \* hardware frame pool, or NULL
    stream,      \* id of the format context that owns the stream, or NULL
    packet,      \* "null", "empty" (unreferenced) or "ref" (holds a payload)
    pts,         \* the presentation-timestamp counter
    \* --- format contexts (the sink), by id
    fmtState,    \* "none", "live", "freed"
    sink,        \* what the muxer has received, in order
    sinkErr,     \* a packet write to this sink has failed
    streamTb,    \* denominator of the stream time base (0: never set)
    muxTb,       \* denominator the muxer gives a stream at the header write
    \* --- codec contexts, by id
    cdcState,    \* "none", "alloc" (allocated, not opened), "open", "freed"
    queue,       \* frames accepted and not yet emitted, as packets-to-be
    draining,    \* the end-of-input signal has been accepted
    submitted,   \* every frame timestamp passed to avcodec_send_frame
    accepted,    \* every frame timestamp the codec accepted, in order
    eofSeen,     \* the codec has answered end-of-stream
    drainAgain,  \* the codec answered need-more-input while draining
    \* --- control
    pc,          \* "idle", "enc_loop", "fin_loop", "terminated"
    cur,         \* instance the running operation acts on
    via,         \* who called finalize: "finalize", "close", "dtor", "assign"
    other,       \* source instance of a running move assignment
    faults,      \* the converter, codec and muxer may fail in this run
    io,          \* external calls made by the running / last operation
    ret,         \* the last completed operation and how it ended
    steps,       \* the calls the last initialize made, in order
    \* --- fields of the VideoReader and what it drives
    rdPc,        \* "none" (no reader), "live", "crashed"
    convert,     \* the reader's converter handle is non-null
    decoder,     \* the reader's decoder handle: "null" or "set"
    start_frame, \* first frame of the range
    end_frame,   \* last frame of the range, -1 for no range
    currentIndex, \* index of the next frame next() returns
    totalFrames, \* properties.totalFrames
    decPos,      \* index of the frame the decoder decodes next
    calls,       \* teardown calls the reader made, in order
    iterating,   \* iter() was called and only next() since
    returned,    \* frames next() returned since the last iter()
    asked,       \* arguments of the last setRange that succeeded, or <<>>
    rdRet        \* the last reader operation and how it ended

inst_vars == <<exists, converter, formatCtx, codecCtx, hwDeviceCtx,
               hwFramesCtx, stream, packet, pts>>
fmt_vars  == <<fmtState, sink, sinkErr, streamTb, muxTb>>
cdc_vars  == <<cdcState, queue, draining, submitted, accepted, eofSeen,
               drainAgain>>
ctl_vars  == <<pc, cur, via, other, faults, io, ret, steps>>
enc_vars  == <<inst_vars, fmt_vars, cdc_vars, ctl_vars>>
rd_vars   == <<rdPc, convert, decoder, start_frame, end_frame, currentIndex,
               totalFrames, decPos, calls, iterating, returned, asked, rdRet>>
vars == <<enc_vars, rd_vars>>

\* ---------------------------------------------------------------- helpers
Header  == [kind |-> "header",  pts |-> 0, dts |-> 0]
Trailer == [kind |-> "trailer", pts |-> 0, dts |-> 0]
Packet(p, d) == [kind |-> "packet", pts |-> p, dts |-> d]

\* How an operation ended: what it answered (val), the diagnostic of the
\* exception it threw or caught (msg), and what the instance held when the
\* operation started (pre).
Result(op, e, val, msg, pre) ==
    [op |-> op, inst |-> e, val |-> val, msg |-> msg, pre |-> pre]

\* Every handle of e, the packet included, is null.
Released(e) ==
    /\ formatCtx[e] = NULL /\ codecCtx[e] = NULL
    /\ hwDeviceCtx[e] = NULL /\ hwFramesCtx[e] = NULL
    /\ stream[e] = NULL /\ packet[e] = "null"

Pre(e) ==
    IF formatCtx[e] # NULL /\ codecCtx[e] # NULL THEN "open"
    ELSE IF Released(e) THEN "released"
    ELSE "unopened"

\* bool Encoder::isOpen() const
IsOpen(e) == formatCtx[e] # NULL /\ codecCtx[e] # NULL

\* unique_ptr::reset / move-from: the context a handle pointed to is freed.
Freed(state, id) ==
    IF id = NULL THEN state ELSE [state EXCEPT ![id] = "freed"]

\* What is still recorded of the contexts when an operation starts: the
\* record of a context freed by an earlier operation is dropped (its memory
\* is gone; the stale stream time base a dangling handle may read stays).
Kept(rec, state, blank) ==
    [i \in CtxId |-> IF state[i] = "freed" THEN blank ELSE rec[i]]

\* av_rescale_q(a, bq, cq) with AV_ROUND_NEAR_INF, as av_packet_rescale_ts
\* applies it to pts and dts: a * (bq.num * cq.den) / (bq.den * cq.num),
\* rounded to nearest, halves away from zero; INT64_MIN when the divisor
\* is not positive.  Time bases are 1/srcDen and 1/dstDen (dstDen = 0 for
\* a 0/0 time base).
\* Mutant: the division truncates instead of rounding to nearest.
av_rescale_q_down(a, srcDen, dstDen) ==
    LET b == dstDen
        c == IF dstDen = 0 THEN 0 ELSE srcDen
    IN  IF c <= 0 THEN AV_NOPTS_VALUE
        ELSE (a * b) \div c

av_rescale_q(a, srcDen, dstDen) ==
    LET b == dstDen
        c == IF dstDen = 0 THEN 0 ELSE srcDen
    IN  IF c <= 0 THEN AV_NOPTS_VALUE
        ELSE (a * b + (c \div 2)) \div c

av_packet_rescale_ts(pkt, srcDen, dstDen) ==
    Packet(IF pkt.pts = AV_NOPTS_VALUE THEN pkt.pts
           ELSE av_rescale_q(pkt.pts, srcDen, dstDen),
           IF pkt.dts = AV_NOPTS_VALUE THEN pkt.dts
           ELSE av_rescale_q(pkt.dts, srcDen, dstDen))

\* How a VideoReader operation ended.
RdResult(op, val) == [op |-> op, val |-> val]

\* ------------------------------------------------------------------- init
\* No instance is constructed yet and nothing is allocated.
InitFields ==
    /\ exists      = [e \in Inst |-> FALSE]
    /\ converter   = [e \in Inst |-> FALSE]
    /\ formatCtx   = [e \in Inst |-> NULL]
    /\ codecCtx    = [e \in Inst |-> NULL]
    /\ hwDeviceCtx = [e \in Inst |-> NULL]
    /\ hwFramesCtx = [e \in Inst |-> NULL]
    /\ stream      = [e \in Inst |-> NULL]
    /\ packet      = [e \in Inst |-> "null"]
    /\ pts         = [e \in Inst |-> 0]
    /\ fmtState    = [i \in CtxId |-> "none"]
    /\ sink        = [i \in CtxId |-> <<>>]
    /\ sinkErr     = [i \in CtxId |-> FALSE]
    /\ streamTb    = [i \in CtxId |-> 0]
    /\ cdcState    = [i \in CtxId |-> "none"]
    /\ queue       = [i \in CtxId |-> <<>>]
    /\ draining    = [i \in CtxId |-> FALSE]
    /\ submitted   = [i \in CtxId |-> <<>>]
    /\ accepted    = [i \in CtxId |-> <<>>]
    /\ eofSeen     = [i \in CtxId |-> FALSE]
    /\ drainAgain  = [i \in CtxId |-> FALSE]
    /\ pc    = "idle"
    /\ cur   = 1
    /\ via   = "finalize"
    /\ other = 1
    /\ io    = {}
    /\ ret   = Result("none", 1, "void", "", "unopened")
    /\ steps = <<>>
    /\ rdPc         = "none"
    /\ convert      = FALSE
    /\ decoder      = "null"
    /\ start_frame  = 0
    /\ end_frame    = -1
    /\ currentIndex = 0
    /\ totalFrames  = 0
    /\ decPos       = 0
    /\ calls        = <<>>
    /\ iterating    = FALSE
    /\ returned     = 0
    /\ asked        = <<>>
    /\ rdRet        = RdResult("none", "void")

InitState ==
    /\ InitFields
    /\ muxTb \in StreamDens

\* Any answer the converter, the codec and the muxer document can occur.
Init ==
    /\ InitState
    /\ faults = TRUE

\* The converter, the codec and the muxer answer without errors.
InitMove ==
    /\ InitState
    /\ faults = FALSE

\* The failure answers of an external call, when the run has any.
Faulty(S) == IF faults THEN S ELSE {}

\* Every operation starts by dropping the records of freed contexts.
ForgetSink    == Kept(sink, fmtState, <<>>)
ForgetQueue   == Kept(queue, cdcState, <<>>)
ForgetAccepted == Kept(accepted, cdcState, <<>>)
ForgetSubmitted == Kept(submitted, cdcState, <<>>)
ForgetCodecFlags ==
    /\ draining'   = Kept(draining, cdcState, FALSE)
    /\ drainAgain' = Kept(drainAgain, cdcState, FALSE)
    /\ eofSeen'    = Kept(eofSeen, cdcState, FALSE)
Forget ==
    /\ sink'       = ForgetSink
    /\ sinkErr'    = Kept(sinkErr, fmtState, FALSE)
    /\ queue'      = ForgetQueue
    /\ submitted'  = ForgetSubmitted
    /\ accepted'   = ForgetAccepted
    /\ ForgetCodecFlags

\* ------------------------------------------------------------ constructor
\* Encoder::Encoder(converter): allocates the packet, everything else null,
\* pts = 0.  A failed packet allocation throws and no object exists.
Construct(e) ==
    /\ pc = "idle"
    /\ ~exists[e]
    /\ \E ok \in {TRUE} \cup Faulty({FALSE}) :
        IF ok
        THEN /\ exists'    = [exists EXCEPT ![e] = TRUE]
             /\ converter' = [converter EXCEPT ![e] = TRUE]
             /\ formatCtx' = [formatCtx EXCEPT ![e] = NULL]
             /\ codecCtx'  = [codecCtx EXCEPT ![e] = NULL]
             /\ stream'    = [stream EXCEPT ![e] = NULL]
             /\ packet'    = [packet EXCEPT ![e] = "empty"]
             /\ pts'       = [pts EXCEPT ![e] = 0]
             /\ ret'       = Result("construct", e, "void", "", "unopened")
        ELSE /\ UNCHANGED <<exists, converter, formatCtx, codecCtx, stream,
                            packet, pts>>
             /\ ret'       = Result("construct", e, "raised", "packet_alloc",
                                     "unopened")
    /\ io' = {}
    /\ steps' = <<>>
    /\ Forget
    /\ UNCHANGED <<hwDeviceCtx, hwFramesCtx, fmtState, streamTb, muxTb,
                   cdcState, pc, cur, via, other, faults>>
    /\ UNCHANGED rd_vars

\* ------------------------------------------------------------- initialize
\* The step of initialize that throws, in program order, or "none".
InitFailures ==
    {"alloc_output_context", "avio_open", "find_encoder", "alloc_codec",
     "codec_open", "new_stream", "copy_parameters", "write_header", "none"}

\* Number of resource-changing steps initialize has completed when it
\* leaves: 1 formatCtx set, 2 codecCtx set, 3 codec opened, 4 stream set,
\* 5 stream time base set, 6 header written.
InitProgress(f) ==
    CASE f = "alloc_output_context" -> 0
      [] f \in {"avio_open", "find_encoder", "alloc_codec"} -> 1
      [] f = "codec_open"      -> 2
      [] f = "new_stream"      -> 3
      [] f = "copy_parameters" -> 4
      [] f = "write_header"    -> 5
      [] OTHER                 -> 6

\* Mutant: the header is written before the codec parameters are copied.
InitCallsHeaderFirst ==
    <<"alloc_output_context", "avio_open", "initHWAccel", "find_encoder",
      "alloc_codec", "codec_open", "new_stream", "write_header",
      "copy_parameters", "set_time_base">>

\* The calls initialize makes, in program order (openFile and
\* initCodecContext inlined where initialize calls them).
InitCalls ==
    <<"alloc_output_context", "avio_open", "initHWAccel", "find_encoder",
      "alloc_codec", "codec_open", "new_stream", "copy_parameters",
      "set_time_base", "write_header">>

\* The calls made by an initialize in which step f throws: every call up to
\* and including f; all of them when none throws.
InitSteps(f) ==
    IF f = "none" THEN InitCalls
    ELSE SubSeq(InitCalls, 1, CHOOSE k \in 1..Len(InitCalls) : InitCalls[k] = f)

FreshIds == {i \in CtxId : fmtState[i] = "none" /\ cdcState[i] = "none"}
MinOf(S) == CHOOSE x \in S : \A y \in S : x <= y

\* void Encoder::initialize(outputPath, props), with openFile and
\* initCodecContext.  formatCtx.reset / codecCtx.reset free what the handle
\* held before; pts, packet and (until avformat_new_stream succeeds) stream
\* keep their values.
Initialize(e) ==
    /\ pc = "idle"
    /\ exists[e]
    /\ FreshIds # {}
    /\ \E f \in {"none"} \cup Faulty(InitFailures), tb \in {Fps, muxTb} :
        LET i == MinOf(FreshIds)
            n == InitProgress(f)
        IN  /\ (n < 6 => tb = Fps)
            /\ (n = 6 => tb = muxTb)
            /\ formatCtx' = IF n >= 1 THEN [formatCtx EXCEPT ![e] = i]
                            ELSE formatCtx
            /\ fmtState'  = IF n >= 1
                            THEN [Freed(fmtState, formatCtx[e]) EXCEPT ![i] = "live"]
                            ELSE fmtState
            /\ codecCtx'  = IF n >= 2 THEN [codecCtx EXCEPT ![e] = i]
                            ELSE codecCtx
            /\ cdcState'  = IF n >= 2
                            THEN [Freed(cdcState, codecCtx[e]) EXCEPT
                                    ![i] = IF n >= 3 THEN "open" ELSE "alloc"]
                            ELSE cdcState
            /\ stream'    = IF n >= 4 THEN [stream EXCEPT ![e] = i] ELSE stream
            /\ streamTb'  = IF n >= 5 THEN [streamTb EXCEPT ![i] = tb]
                            ELSE IF n = 4
                            THEN [streamTb EXCEPT ![i] = DefaultStreamDen]
                            ELSE streamTb
            /\ sink'      = IF n = 6 THEN [ForgetSink EXCEPT ![i] = <<Header>>]
                            ELSE ForgetSink
            /\ io'        = IF n >= 5 THEN {"write_header"} ELSE {}
            /\ steps'     = InitSteps(f)
            /\ ret'       = Result("initialize", e,
                                   IF n = 6 THEN "void" ELSE "raised",
                                   IF n = 6 THEN "" ELSE f, Pre(e))
    /\ sinkErr'    = Kept(sinkErr, fmtState, FALSE)
    /\ queue'      = ForgetQueue
    /\ submitted'  = ForgetSubmitted
    /\ accepted'   = ForgetAccepted
    /\ ForgetCodecFlags
    /\ UNCHANGED <<exists, converter, hwDeviceCtx, hwFramesCtx, packet, pts,
                   muxTb, pc, cur, via, other, faults>>
    /\ UNCHANGED rd_vars

\* ------------------------------------------------------- external answers
\* avcodec_send_frame(ctx, frame): a codec that is not open or is draining
\* rejects the frame; an open one accepts it or reports an error.
SendFrameAnswers(c) ==
    IF cdcState[c] = "open" /\ ~draining[c]
    THEN {"ok"} \cup Faulty({"error"}) ELSE {"error"}

\* avcodec_send_frame(ctx, NULL): the end-of-input signal, likewise.
SendFlushAnswers(c) ==
    IF cdcState[c] = "open" /\ ~draining[c]
    THEN {"ok"} \cup Faulty({"error"}) ELSE {"error"}

\* avcodec_receive_packet: the oldest buffered frame as a packet (the codec
\* may hold frames back as long as it likes), need-more-input, end of
\* stream once a draining codec is empty, or an error.  Need-more-input
\* from a draining codec is an answer the documented protocol excludes.
ReceiveAnswers(c) ==
    Faulty({"error"})
        \cup (IF draining[c] THEN Faulty({"again"}) ELSE {"again"})
        \cup (IF queue[c] # <<>> THEN {"packet"} ELSE {})
        \cup (IF draining[c] /\ queue[c] = <<>> THEN {"eof"} ELSE {})

\* The process is gone: a null dereference, or std::terminate.
Terminate(op, e, msg, pre) ==
    /\ pc'  = "terminated"
    /\ ret' = Result(op, e, "crashed", msg, pre)
    /\ cur' = 1 /\ via' = "finalize" /\ other' = 1

Return(op, e, val, msg, pre) ==
    /\ pc'  = "idle"
    /\ ret' = Result(op, e, val, msg, pre)
    /\ cur' = 1 /\ via' = "finalize" /\ other' = 1

\* ------------------------------------------------------------ encodeFrame
\* Mutant: the catch block is missing and the exception escapes.
EncodeFrameResultEscapes(threw) == IF threw THEN "raised" ELSE "true"

\* The catch block of encodeFrame: every exception becomes "false".
EncodeFrameResult(threw) == IF threw THEN "false" ELSE "true"

\* Mutant: the counter advances before the conversion is known to succeed.
PtsAfterConvertAlways(p, converted) == p + 1

\* frame->pts = pts++ runs only after a successful conversion.
PtsAfterConvert(p, converted) == IF converted THEN p + 1 ELSE p

\* The receive loop of encodeFrame stops at need-more-input and at end of
\* stream.
EncodeLoopBreaks(ans) == ans \in {"again", "eof"}

\* Mutant: the failure path of the write throws without av_packet_unref.
PacketAfterWriteLeaks(written) == IF written THEN "empty" ELSE "ref"

\* av_packet_unref follows the write on both paths.
PacketAfterWrite(written) == "empty"

\* bool Encoder::encodeFrame(buffer), up to and including avcodec_send_frame.
EncodeFrame(e) ==
    /\ pc = "idle"
    /\ exists[e]
    /\ pts[e] < MaxPts
    /\ IF ~IsOpen(e)
       THEN /\ Return("encodeFrame", e, EncodeFrameResult(TRUE), "not_open", Pre(e))
            /\ io' = {}
            /\ pts' = pts
            /\ queue' = ForgetQueue
            /\ submitted' = ForgetSubmitted
            /\ accepted' = ForgetAccepted
       ELSE IF ~converter[e]
       THEN \* converter->convert on a moved-from converter
            /\ Terminate("encodeFrame", e, "null_converter", Pre(e))
            /\ io' = {}
            /\ pts' = pts
            /\ queue' = ForgetQueue
            /\ submitted' = ForgetSubmitted
            /\ accepted' = ForgetAccepted
       ELSE \E converted \in {TRUE} \cup Faulty({FALSE}),
               ans \in {"error"} \cup SendFrameAnswers(codecCtx[e]) :
            LET c == codecCtx[e] IN
            /\ pts' = [pts EXCEPT ![e] = PtsAfterConvert(pts[e], converted)]
            /\ IF ~converted
               THEN /\ ans = "error"
                    /\ Return("encodeFrame", e, EncodeFrameResult(TRUE), "convert",
                              Pre(e))
                    /\ io' = {"convert"}
                    /\ queue' = ForgetQueue
                    /\ submitted' = ForgetSubmitted
                    /\ accepted' = ForgetAccepted
               ELSE /\ ans \in SendFrameAnswers(c)
                    /\ io' = {"convert", "send_frame"}
                    /\ submitted' = [ForgetSubmitted EXCEPT ![c] = Append(@, pts[e])]
                    /\ IF ans = "error"
                       THEN /\ Return("encodeFrame", e, EncodeFrameResult(TRUE),
                                      "send", Pre(e))
                            /\ queue' = ForgetQueue
                            /\ accepted' = ForgetAccepted
                       ELSE /\ queue'    = [ForgetQueue EXCEPT
                                      ![c] = Append(@, Packet(pts[e], pts[e]))]
                            /\ accepted' = [ForgetAccepted EXCEPT
                                              ![c] = Append(@, pts[e])]
                            /\ pc'  = "enc_loop"
                            /\ cur' = e
                            /\ UNCHANGED <<via, other, ret>>
    /\ sink'       = ForgetSink
    /\ sinkErr'    = Kept(sinkErr, fmtState, FALSE)
    /\ ForgetCodecFlags
    /\ steps' = <<>>
    /\ UNCHANGED <<exists, converter, formatCtx, codecCtx, hwDeviceCtx,
                   hwFramesCtx, stream, packet, fmtState, streamTb, muxTb,
                   cdcState, faults>>
    /\ UNCHANGED rd_vars

\* Time base the relay reads through the stream handle e holds; a handle
\* into a freed format context reads what that context's stream last held.
StreamTimeBase(e) == streamTb[stream[e]]

\* One pass of the receive loop of encodeFrame.
EncodeReceive ==
    /\ pc = "enc_loop"
    /\ LET e == cur
           c == codecCtx[e]
           f == formatCtx[e]
       IN
       IF packet[e] = "null"
       THEN \* avcodec_receive_packet on a freed packet
            /\ Terminate("encodeFrame", e, "null_packet", "open")
            /\ io' = io \cup {"receive"}
            /\ UNCHANGED <<packet, sink, sinkErr, queue, eofSeen>>
       ELSE \E ans \in ReceiveAnswers(c), written \in {TRUE} \cup Faulty({FALSE}),
               alive \in BOOLEAN :
            /\ io' = io \cup {"receive"}
                        \cup (IF ans = "packet" /\ stream[e] # NULL
                                 /\ (stream[e] = f \/ alive)
                              THEN {"write_frame"} ELSE {})
            /\ eofSeen' = IF ans = "eof" THEN [eofSeen EXCEPT ![c] = TRUE]
                          ELSE eofSeen
            /\ IF EncodeLoopBreaks(ans)
               THEN /\ written /\ alive
                    /\ Return("encodeFrame", e, EncodeFrameResult(FALSE), "", "open")
                    /\ UNCHANGED <<packet, sink, sinkErr, queue>>
               ELSE IF ans \in {"error", "again", "eof"}
               THEN /\ written /\ alive
                    /\ IF ans = "error"
                       THEN Return("encodeFrame", e, EncodeFrameResult(TRUE),
                                   "receive", "open")
                       ELSE UNCHANGED <<pc, cur, via, other, ret>>
                    /\ UNCHANGED <<packet, sink, sinkErr, queue>>
               ELSE \* a packet: rescale through the stream, then write
                    /\ queue' = [queue EXCEPT ![c] = Tail(@)]
                    /\ IF stream[e] = NULL \/ (stream[e] # f /\ ~alive)
                       THEN \* stream->time_base through a null or dangling handle
                            /\ written
                            /\ (stream[e] = NULL => alive)
                            /\ Terminate("encodeFrame", e, "bad_stream", "open")
                            /\ UNCHANGED <<packet, sink, sinkErr>>
                       ELSE /\ (stream[e] = f => alive)
                            /\ packet' = [packet EXCEPT ![e] = PacketAfterWrite(written)]
                            /\ IF written
                               THEN /\ sink' = [sink EXCEPT ![f] = Append(@,
                                              av_packet_rescale_ts(Head(queue[c]),
                                                                   Fps, StreamTimeBase(e)))]
                                    /\ UNCHANGED <<sinkErr, pc, cur, via, other, ret>>
                               ELSE /\ sinkErr' = [sinkErr EXCEPT ![f] = TRUE]
                                    /\ Return("encodeFrame", e, EncodeFrameResult(TRUE),
                                              "write", "open")
                                    /\ UNCHANGED sink
    /\ UNCHANGED <<exists, converter, formatCtx, codecCtx, hwDeviceCtx,
                   hwFramesCtx, stream, pts, fmtState, streamTb, muxTb,
                   cdcState, draining, submitted, accepted, drainAgain, faults,
                   steps>>
    /\ UNCHANGED rd_vars

\* ------------------------------------------------- close, move, destroy
\* Mutant: close() forgets stream = nullptr.
CloseRestKeepsStream(e) ==
    /\ packet'      = [packet EXCEPT ![e] = "null"]
    /\ cdcState'    = Freed(cdcState, codecCtx[e])
    /\ fmtState'    = Freed(fmtState, formatCtx[e])
    /\ codecCtx'    = [codecCtx EXCEPT ![e] = NULL]
    /\ formatCtx'   = [formatCtx EXCEPT ![e] = NULL]
    /\ hwDeviceCtx' = [hwDeviceCtx EXCEPT ![e] = NULL]
    /\ hwFramesCtx' = [hwFramesCtx EXCEPT ![e] = NULL]
    /\ UNCHANGED <<exists, converter, pts, stream>>

\* The part of close() after finalize() has returned: the packet is freed,
\* the contexts are released and the stream handle is nulled.
CloseRest(e) ==
    /\ packet'      = [packet EXCEPT ![e] = "null"]
    /\ cdcState'    = Freed(cdcState, codecCtx[e])
    /\ fmtState'    = Freed(fmtState, formatCtx[e])
    /\ codecCtx'    = [codecCtx EXCEPT ![e] = NULL]
    /\ formatCtx'   = [formatCtx EXCEPT ![e] = NULL]
    /\ hwDeviceCtx' = [hwDeviceCtx EXCEPT ![e] = NULL]
    /\ hwFramesCtx' = [hwFramesCtx EXCEPT ![e] = NULL]
    /\ stream'      = [stream EXCEPT ![e] = NULL]
    /\ UNCHANGED <<exists, converter, pts>>

\* ~Encoder(): close(), then the members are destroyed.
DestroyRest(e) ==
    /\ packet'      = [packet EXCEPT ![e] = "null"]
    /\ cdcState'    = Freed(cdcState, codecCtx[e])
    /\ fmtState'    = Freed(fmtState, formatCtx[e])
    /\ codecCtx'    = [codecCtx EXCEPT ![e] = NULL]
    /\ formatCtx'   = [formatCtx EXCEPT ![e] = NULL]
    /\ hwDeviceCtx' = [hwDeviceCtx EXCEPT ![e] = NULL]
    /\ hwFramesCtx' = [hwFramesCtx EXCEPT ![e] = NULL]
    /\ stream'      = [stream EXCEPT ![e] = NULL]
    /\ exists'      = [exists EXCEPT ![e] = FALSE]
    /\ converter'   = [converter EXCEPT ![e] = FALSE]
    /\ pts'         = [pts EXCEPT ![e] = 0]

\* Mutant: the move forgets other.packet = nullptr.
MovedFromPacketKept(p) == p

\* What the source of a move keeps of its packet and stream handles
\* (other.stream = nullptr; other.packet = nullptr).
MovedFromPacket(p) == "null"
MovedFromStream(st) == NULL

\* Encoder& operator=(Encoder&& other), after close() on *this returned:
\* d takes every handle and the counter of s; the unique_ptr members and the
\* converter of s become null, its stream and packet are nulled by hand.
AssignRest(d, s) ==
    /\ cdcState'    = Freed(cdcState, codecCtx[d])
    /\ fmtState'    = Freed(fmtState, formatCtx[d])
    /\ formatCtx'   = [formatCtx EXCEPT ![d] = formatCtx[s], ![s] = NULL]
    /\ codecCtx'    = [codecCtx EXCEPT ![d] = codecCtx[s], ![s] = NULL]
    /\ hwDeviceCtx' = [hwDeviceCtx EXCEPT ![d] = hwDeviceCtx[s], ![s] = NULL]
    /\ hwFramesCtx' = [hwFramesCtx EXCEPT ![d] = hwFramesCtx[s], ![s] = NULL]
    /\ stream'      = [stream EXCEPT ![d] = stream[s],
                                     ![s] = MovedFromStream(stream[s])]
    /\ packet'      = [packet EXCEPT ![d] = packet[s],
                                     ![s] = MovedFromPacket(packet[s])]
    /\ pts'         = [pts EXCEPT ![d] = pts[s]]
    /\ converter'   = [converter EXCEPT ![d] = converter[s], ![s] = FALSE]
    /\ UNCHANGED exists

\* Encoder::Encoder(Encoder&& other): the same transfer into a new object.
MoveConstruct(d, s) ==
    /\ pc = "idle"
    /\ d # s
    /\ ~exists[d]
    /\ exists[s]
    /\ formatCtx'   = [formatCtx EXCEPT ![d] = formatCtx[s], ![s] = NULL]
    /\ codecCtx'    = [codecCtx EXCEPT ![d] = codecCtx[s], ![s] = NULL]
    /\ hwDeviceCtx' = [hwDeviceCtx EXCEPT ![d] = hwDeviceCtx[s], ![s] = NULL]
    /\ hwFramesCtx' = [hwFramesCtx EXCEPT ![d] = hwFramesCtx[s], ![s] = NULL]
    /\ stream'      = [stream EXCEPT ![d] = stream[s],
                                     ![s] = MovedFromStream(stream[s])]
    /\ packet'      = [packet EXCEPT ![d] = packet[s],
                                     ![s] = MovedFromPacket(packet[s])]
    /\ pts'         = [pts EXCEPT ![d] = pts[s]]
    /\ converter'   = [converter EXCEPT ![d] = converter[s], ![s] = FALSE]
    /\ exists'      = [exists EXCEPT ![d] = TRUE]
    /\ io'  = {}
    /\ ret' = Result("move", d, "void", "", Pre(s))
    /\ steps' = <<>>
    /\ Forget
    /\ UNCHANGED <<fmtState, streamTb, muxTb, cdcState, pc, cur, via, other,
                   faults>>
    /\ UNCHANGED rd_vars

\* --------------------------------------------------------------- finalize
\* Mutant: finalize throws on a session that is not open.
FinalizeNotOpenThrows == "raised"

\* What finalize() answers on a session that is not open.
FinalizeNotOpen == "false"

\* Mutant: need-more-input during the flush leads to another receive.
FlushLoopExitsAtEofOnly(ans) == ans = "eof"

\* The flush loop of finalize is left at end of stream; after `continue` on
\* need-more-input the loop condition ret >= 0 is tested with the negative
\* AVERROR(EAGAIN) in ret, so the loop is left as well.
FlushLoopExits(ans) == ans \in {"eof", "again"}

\* Mutant: a failed trailer write is swallowed and finalize returns true.
TrailerResultSwallowed(ok) == "true"

\* ret = av_write_trailer(...); if (ret < 0) throw ...; return true;
TrailerResult(ok) == IF ok THEN "true" ELSE "raised"

\* finalize() has ended with `res` ("true", "false" or "raised", with
\* diagnostic msg) in the operation that called it; pk is the packet buffer
\* of e at that point and pre what e held when the operation started.
\* A finalize that throws inside close() leaves close() before anything is
\* released; inside the destructor or the noexcept move assignment it ends
\* the process.
FinalizeEnds(e, v, s, res, msg, pk, pre) ==
    CASE v = "finalize" ->
            /\ Return("finalize", e, res, msg, pre)
            /\ packet' = [packet EXCEPT ![e] = pk]
            /\ UNCHANGED <<exists, converter, formatCtx, codecCtx, hwDeviceCtx,
                           hwFramesCtx, stream, pts, fmtState, cdcState>>
      [] v = "close" /\ res = "raised" ->
            /\ Return("close", e, "raised", msg, pre)
            /\ packet' = [packet EXCEPT ![e] = pk]
            /\ UNCHANGED <<exists, converter, formatCtx, codecCtx, hwDeviceCtx,
                           hwFramesCtx, stream, pts, fmtState, cdcState>>
      [] v = "close" /\ res # "raised" ->
            /\ Return("close", e, "void", msg, pre)
            /\ CloseRest(e)
      [] v \in {"dtor", "assign"} /\ res = "raised" ->
            /\ Terminate(v, e, msg, pre)
            /\ packet' = [packet EXCEPT ![e] = pk]
            /\ UNCHANGED <<exists, converter, formatCtx, codecCtx, hwDeviceCtx,
                           hwFramesCtx, stream, pts, fmtState, cdcState>>
      [] v = "dtor" /\ res # "raised" ->
            /\ Return("dtor", e, "void", msg, pre)
            /\ DestroyRest(e)
      [] v = "assign" /\ res # "raised" ->
            /\ Return("assign", e, "void", msg, pre)
            /\ AssignRest(e, s)

\* bool Encoder::finalize(), up to and including the end-of-input signal,
\* called directly (v = "finalize") or from close(), the destructor or the
\* move assignment.
FinalizeBegin(e, v, s) ==
    /\ pc = "idle"
    /\ exists[e]
    /\ IF ~IsOpen(e)
       THEN /\ FinalizeEnds(e, v, s, FinalizeNotOpen, "not_open", packet[e], Pre(e))
            /\ io' = {}
            /\ draining' = Kept(draining, cdcState, FALSE)
       ELSE \E ans \in SendFlushAnswers(codecCtx[e]) :
            /\ io' = {"send_flush"}
            /\ IF ans = "error"
               THEN /\ FinalizeEnds(e, v, s, "raised", "flush_send", packet[e],
                                    Pre(e))
                    /\ draining' = Kept(draining, cdcState, FALSE)
               ELSE /\ draining' = [Kept(draining, cdcState, FALSE) EXCEPT
                                      ![codecCtx[e]] = TRUE]
                    /\ pc'    = "fin_loop"
                    /\ cur'   = e
                    /\ via'   = v
                    /\ other' = s
                    /\ UNCHANGED <<inst_vars, fmtState, cdcState, ret>>
    /\ sink'       = ForgetSink
    /\ sinkErr'    = Kept(sinkErr, fmtState, FALSE)
    /\ queue'      = ForgetQueue
    /\ submitted'  = ForgetSubmitted
    /\ accepted'   = ForgetAccepted
    /\ drainAgain' = Kept(drainAgain, cdcState, FALSE)
    /\ eofSeen'    = Kept(eofSeen, cdcState, FALSE)
    /\ steps'      = <<>>
    /\ UNCHANGED <<streamTb, muxTb, faults>>
    /\ UNCHANGED rd_vars

\* bool Encoder::finalize()
Finalize(e) == FinalizeBegin(e, "finalize", e)

\* void Encoder::close()
Close(e) == FinalizeBegin(e, "close", e)

\* Encoder::~Encoder()
Destroy(e) == FinalizeBegin(e, "dtor", e)

\* Encoder& Encoder::operator=(Encoder&& other) with this != &other
MoveAssign(d, s) ==
    /\ d # s
    /\ exists[s]
    /\ FinalizeBegin(d, "assign", s)

\* One pass of the flush loop of finalize; when the loop is left, the
\* trailer write and the rest of the calling operation follow.
FinalizeReceive ==
    /\ pc = "fin_loop"
    /\ LET e == cur
           c == codecCtx[e]
           f == formatCtx[e]
       IN
       IF packet[e] = "null"
       THEN \* avcodec_receive_packet on a freed packet
            /\ Terminate(via, e, "null_packet", "open")
            /\ io' = io \cup {"receive"}
            /\ UNCHANGED <<inst_vars, fmtState, cdcState, sink, sinkErr, queue,
                           drainAgain, eofSeen>>
       ELSE \E ans \in ReceiveAnswers(c), ok \in {TRUE} \cup Faulty({FALSE}),
               alive \in BOOLEAN :
            /\ drainAgain' = IF ans = "again"
                             THEN [drainAgain EXCEPT ![c] = TRUE]
                             ELSE drainAgain
            /\ eofSeen' = IF ans = "eof" THEN [eofSeen EXCEPT ![c] = TRUE]
                          ELSE eofSeen
            /\ IF FlushLoopExits(ans)
               THEN \* av_write_trailer
                    /\ alive
                    /\ io' = io \cup {"receive", "write_trailer"}
                    /\ sink' = IF ok THEN [sink EXCEPT ![f] = Append(@, Trailer)]
                               ELSE sink
                    /\ FinalizeEnds(e, via, other, TrailerResult(ok),
                                    IF ok THEN "" ELSE "trailer", packet[e], "open")
                    /\ UNCHANGED <<sinkErr, queue>>
               ELSE IF ans \in {"error", "again", "eof"}
               THEN /\ ok /\ alive
                    /\ io' = io \cup {"receive"}
                    /\ IF ans = "error"
                       THEN FinalizeEnds(e, via, other, "raised", "flush_receive",
                                         packet[e], "open")
                       ELSE UNCHANGED <<inst_vars, fmtState, cdcState,
                                        pc, cur, via, other, ret>>
                    /\ UNCHANGED <<sink, sinkErr, queue>>
               ELSE \* a packet: rescale through the stream, then write
                    /\ queue' = [queue EXCEPT ![c] = Tail(@)]
                    /\ IF stream[e] = NULL \/ (stream[e] # f /\ ~alive)
                       THEN \* stream->time_base through a null or dangling handle
                            /\ ok
                            /\ (stream[e] = NULL => alive)
                            /\ io' = io \cup {"receive"}
                            /\ Terminate(via, e, "bad_stream", "open")
                            /\ UNCHANGED <<inst_vars, fmtState, cdcState,
                                           sink, sinkErr>>
                       ELSE /\ (stream[e] = f => alive)
                            /\ io' = io \cup {"receive", "write_frame"}
                            /\ IF ok
                               THEN /\ sink' = [sink EXCEPT ![f] = Append(@,
                                              av_packet_rescale_ts(Head(queue[c]),
                                                                   Fps, StreamTimeBase(e)))]
                                    /\ packet' = [packet EXCEPT
                                                    ![e] = PacketAfterWrite(ok)]
                                    /\ UNCHANGED <<exists, converter, formatCtx,
                                                   codecCtx, hwDeviceCtx,
                                                   hwFramesCtx, stream, pts,
                                                   fmtState, cdcState, sinkErr,
                                                   pc, cur, via, other, ret>>
                               ELSE /\ sinkErr' = [sinkErr EXCEPT ![f] = TRUE]
                                    /\ FinalizeEnds(e, via, other, "raised",
                                                    "flush_write",
                                                    PacketAfterWrite(ok), "open")
                                    /\ UNCHANGED sink
    /\ UNCHANGED <<streamTb, muxTb, draining, submitted, accepted, faults,
                   steps>>
    /\ UNCHANGED rd_vars

\* The lifecycle of one Encoder.
Main == 1

Next ==
    \/ Construct(Main)
    \/ Initialize(Main)
    \/ EncodeFrame(Main)
    \/ EncodeReceive
    \/ Finalize(Main)
    \/ FinalizeReceive
    \/ Close(Main)
    \/ Destroy(Main)

Spec == Init /\ [][Next]_vars

\* Two Encoders and the moves between them.
NextMove ==
    \/ \E e \in Inst : Construct(e)
    \/ \E d, s \in Inst : MoveConstruct(d, s)
    \/ \E d, s \in Inst : MoveAssign(d, s)
    \/ \E e \in Inst : Initialize(e)
    \/ \E e \in Inst : EncodeFrame(e)
    \/ EncodeReceive
    \/ \E e \in Inst : Finalize(e)
    \/ FinalizeReceive
    \/ \E e \in Inst : Close(e)
    \/ \E e \in Inst : Destroy(e)

SpecMove == InitMove /\ [][NextMove]_vars

\* The caller's thread keeps running: a loop that can make a pass makes it.
SpecFair ==
    /\ Init /\ [][Next]_vars
    /\ WF_vars(EncodeReceive) /\ WF_vars(FinalizeReceive)

\* One Encoder, no failures, every stream time base of RescaleDens.
InitRescale ==
    /\ InitFields
    /\ muxTb \in RescaleDens
    /\ faults = FALSE

SpecRescale == InitRescale /\ [][Next]_vars

\* ------------------------------------------------------------ VideoReader
\* Arguments a caller passes to setRange.
ArgRange == (-(MaxFrames + 1))..(MaxFrames + 1)

\* The member `convert` after the constructor has handed the converter to
\* the decoder factory with std::move(convert): a moved-from unique_ptr.
ConvertAfterCreateDecoder == FALSE

\* VideoReader::VideoReader(filePath, device, dataType): a bad device or
\* data type, a failing factory or a failing tensor allocation throws and
\* no reader exists.
RdConstruct ==
    /\ rdPc = "none"
    /\ \E ok \in {TRUE} \cup Faulty({FALSE}), n \in 0..MaxFrames :
        IF ok
        THEN /\ rdPc'         = "live"
             /\ convert'      = ConvertAfterCreateDecoder
             /\ decoder'      = "set"
             /\ currentIndex' = 0
             /\ start_frame'  = 0
             /\ end_frame'    = -1
             /\ totalFrames'  = n
             /\ decPos'       = 0
             /\ calls'        = <<>>
             /\ iterating'    = FALSE
             /\ returned'     = 0
             /\ asked'        = <<>>
             /\ rdRet'        = RdResult("construct", "void")
        ELSE /\ n = 0
             /\ rdRet'        = RdResult("construct", "raised")
             /\ UNCHANGED <<rdPc, convert, decoder, currentIndex, start_frame,
                            end_frame, totalFrames, decPos, calls, iterating,
                            returned, asked>>
    /\ UNCHANGED enc_vars

\* Mutant: setRange keeps end as the last frame of the range.
RangeEndInclusive(end) == end

\* end = end - 1: end_frame is the last frame of the range.
RangeEnd(end) == end - 1

\* void VideoReader::setRange(int start, int end)
SetRange(a, b) ==
    /\ rdPc = "live"
    /\ LET start == IF a < 0 THEN totalFrames + a ELSE a
           end   == IF b < 0 THEN totalFrames + b ELSE b
       IN  IF start < 0 \/ end < 0 \/ end <= start
           THEN /\ rdRet' = RdResult("setRange", "raised")
                /\ UNCHANGED <<start_frame, end_frame, asked, iterating>>
           ELSE /\ start_frame' = start
                /\ end_frame'   = RangeEnd(end)
                /\ asked'       = <<a, b>>
                /\ iterating'   = FALSE
                /\ rdRet'       = RdResult("setRange", "void")
    /\ UNCHANGED <<rdPc, convert, decoder, currentIndex, totalFrames, decPos,
                   calls, returned>>
    /\ UNCHANGED enc_vars

\* The reader calls through its null decoder handle: the process is gone.
RdCrash(op) ==
    /\ rdPc'  = "crashed"
    /\ rdRet' = RdResult(op, "crashed")
    /\ UNCHANGED <<convert, decoder, start_frame, end_frame, currentIndex,
                   totalFrames, decPos, calls, iterating, returned, asked>>

\* VideoReader& VideoReader::iter(), with seekToFrame and seek: a frame
\* number outside the video is not sought at all; a seek may fail and
\* leave the decoder where it was.
Iter ==
    /\ rdPc = "live"
    /\ IF start_frame >= 0 /\ start_frame < totalFrames /\ decoder = "null"
       THEN RdCrash("iter")
       ELSE /\ currentIndex' = start_frame
            /\ \E sought \in {TRUE} \cup Faulty({FALSE}) :
                 decPos' = IF start_frame >= 0 /\ start_frame < totalFrames
                              /\ sought
                           THEN start_frame ELSE decPos
            /\ iterating' = TRUE
            /\ returned'  = 0
            /\ rdRet'     = RdResult("iter", "void")
            /\ UNCHANGED <<rdPc, convert, decoder, start_frame, end_frame,
                           totalFrames, calls, asked>>
    /\ UNCHANGED enc_vars

\* torch::Tensor VideoReader::next(), with readFrame: stop-iteration past
\* the range or at the end of the video, an error when decoding fails.
NextFrame ==
    /\ rdPc = "live"
    /\ IF end_frame >= 0 /\ currentIndex > end_frame
       THEN /\ rdRet' = RdResult("next", "stop")
            /\ UNCHANGED <<rdPc, convert, decoder, start_frame, end_frame,
                           currentIndex, totalFrames, decPos, calls, iterating,
                           returned, asked>>
       ELSE IF decoder = "null"
       THEN RdCrash("next")
       ELSE \E result \in {IF decPos < totalFrames THEN 1 ELSE 0}
                              \cup Faulty({-1}) :
            /\ rdRet' = RdResult("next", CASE result = 1 -> "frame"
                                            [] result = 0 -> "stop"
                                            [] OTHER -> "raised")
            /\ decPos'       = IF result = 1 THEN decPos + 1 ELSE decPos
            /\ currentIndex' = IF result = 1 THEN currentIndex + 1
                                ELSE currentIndex
            /\ returned'     = IF result = 1 /\ iterating THEN returned + 1
                                ELSE returned
            /\ UNCHANGED <<rdPc, convert, decoder, start_frame, end_frame,
                           totalFrames, calls, iterating, asked>>
    /\ UNCHANGED enc_vars

\* void VideoReader::reset(): seek(0.0), then currentIndex = 0.
Reset ==
    /\ rdPc = "live"
    /\ IF decoder = "null"
       THEN RdCrash("reset")
       ELSE /\ \E sought \in {TRUE} \cup Faulty({FALSE}) :
                 decPos' = IF sought THEN 0 ELSE decPos
            /\ currentIndex' = 0
            /\ iterating'    = FALSE
            /\ returned'     = 0
            /\ rdRet'        = RdResult("reset", "void")
            /\ UNCHANGED <<rdPc, convert, decoder, start_frame, end_frame,
                           totalFrames, calls, asked>>
    /\ UNCHANGED enc_vars

\* The calls close() makes with the handles it finds.
CloseCalls ==
    (IF convert THEN <<"synchronize">> ELSE <<>>)
        \o (IF decoder = "set" THEN <<"decoder_close">> ELSE <<>>)

\* void VideoReader::close(), called directly or from exit().
RdClose(op) ==
    /\ rdPc = "live"
    /\ calls'     = calls \o CloseCalls
    /\ convert'   = FALSE
    /\ decoder'   = "null"
    /\ iterating' = FALSE
    /\ returned'  = 0
    /\ rdRet'     = RdResult(op, "void")
    /\ UNCHANGED <<rdPc, start_frame, end_frame, currentIndex, totalFrames,
                   decPos, asked>>
    /\ UNCHANGED enc_vars

\* VideoReader::~VideoReader(): close(), then the object is gone.
RdDestroy ==
    /\ rdPc = "live"
    /\ calls'        = calls \o CloseCalls
    /\ rdPc'         = "none"
    /\ convert'      = FALSE
    /\ decoder'      = "null"
    /\ start_frame'  = 0
    /\ end_frame'    = -1
    /\ currentIndex' = 0
    /\ totalFrames'  = 0
    /\ decPos'       = 0
    /\ iterating'    = FALSE
    /\ returned'     = 0
    /\ asked'        = <<>>
    /\ rdRet'        = RdResult("dtor", "void")
    /\ UNCHANGED enc_vars

\* One VideoReader and its caller.
InitReader ==
    /\ InitFields
    /\ muxTb = Fps
    /\ faults = TRUE

NextReader ==
    \/ RdConstruct
    \/ \E a, b \in ArgRange : SetRange(a, b)
    \/ Iter
    \/ NextFrame
    \/ Reset
    \/ RdClose("close")
    \/ RdClose("exit")
    \/ RdDestroy

SpecReader == InitReader /\ [][NextReader]_vars

\* ------------------------------------------------------------------ claims
HasTrailer(log) == \E k \in 1..Len(log) : log[k] = Trailer
Trailers(log) == Cardinality({k \in 1..Len(log) : log[k] = Trailer})

\* The step ends the operation op on e (it may have started earlier).
Completes(op, e) ==
    /\ pc' \in {"idle", "terminated"}
    /\ ret'.op = op /\ ret'.inst = e
    /\ (pc = "idle" \/ cur = e)

\* The step starts op on e, whether or not it also ends it.
Starts(ops, e) ==
    /\ pc = "idle"
    /\ \/ pc' \in {"enc_loop", "fin_loop"} /\ cur' = e
       \/ pc' \in {"idle", "terminated"} /\ ret'.inst = e /\ ret'.op \in ops

\* The other of the two instances.
OtherInst(e) == CHOOSE x \in Inst : x # e

\* C1: when initialize throws at any of its steps on an instance that was
\* not open, isOpen() is false afterwards.
C1_FailedInitializeNotOpen ==
    (ret.op = "initialize" /\ ret.val = "raised" /\ ret.pre # "open")
        => ~(formatCtx[ret.inst] # NULL /\ codecCtx[ret.inst] # NULL)

\* C2: finalize writes the trailer only after the codec has answered
\* end-of-stream: need-more-input during the flush does not end the loop.
C2_TrailerOnlyAfterEndOfStream ==
    (pc = "idle" /\ ret.op = "finalize" /\ ret.val = "true")
        => eofSeen[codecCtx[ret.inst]]

\* C3: a close() that follows a successful finalize() (the trailer is in
\* the sink of the session) does not raise and submits no second
\* end-of-input signal.
C3_CloseAfterFinalizeIsQuiet ==
    \A e \in Inst :
        (/\ pc = "idle"
         /\ ret.op = "close" /\ ret.inst = e /\ ret.pre = "open"
         /\ formatCtx[e] # NULL /\ HasTrailer(sink[formatCtx[e]]))
            => (ret.val = "void" /\ "send_flush" \notin io)

\* C4: encodeFrame lets no exception escape: every failure inside it
\* (not open, conversion, submit, receive, packet write) makes it return
\* false, and no step of it changes what isOpen() reports.
C4_EncodeFrameCatchesAll ==
    [][\A e \in Inst :
        (\/ Starts({"encodeFrame"}, e)
         \/ (pc = "enc_loop" /\ cur = e))
        => /\ formatCtx'[e] = formatCtx[e]
           /\ codecCtx'[e] = codecCtx[e]
           /\ (pc' = "idle" => /\ ret'.op = "encodeFrame"
                            /\ ret'.val \in {"true", "false"}
                            /\ (ret'.msg # "" => ret'.val = "false"))
           /\ (pc' = "terminated" => ret'.val = "crashed")
      ]_vars

\* A failed encodeFrame (the packet write failed) has returned false on a
\* session that is still open.
C4_Witness ==
    /\ pc = "idle"
    /\ ret.op = "encodeFrame" /\ ret.val = "false" /\ ret.msg = "write"
    /\ IsOpen(ret.inst)

Contiguous(q) == \A k \in 1..(Len(q) - 1) : q[k + 1] = q[k] + 1

C6_StampsStartAtZero ==
    \A c \in CtxId :
        (cdcState[c] = "open" /\ sink[c] # <<>> /\ sink[c][1] = Header)
            => \A k \in 1..Len(submitted[c]) : submitted[c][k] = k - 1

\* What a sink holds for a session whose codec accepted the frames
\* accepted[c]: the header, one packet per frame in order, the trailer.
Container(c) ==
    <<Header>>
    \o [k \in 1..Len(accepted[c]) |->
            av_packet_rescale_ts(Packet(accepted[c][k], accepted[c][k]),
                                 Fps, streamTb[c])]
    \o <<Trailer>>

\* C7: once the trailer of a session is written and the sink took every
\* packet handed to it, the sink holds the header, exactly one packet per
\* frame the codec accepted, in submission order, and the trailer, in that
\* order, however many frames the codec held back.
C7_ContainerHoldsEveryFrame ==
    \A c \in CtxId :
        (sink[c] # <<>> /\ sink[c][1] = Header /\ HasTrailer(sink[c])
            /\ ~sinkErr[c])
            => sink[c] = Container(c)

\* The same with a codec that never answers need-more-input once it is
\* draining: the only way a held-back packet is lost is the flush loop
\* leaving on that answer.
ContainerHoldsEveryFrameUnlessDrainAgain ==
    \A c \in CtxId :
        (sink[c] # <<>> /\ sink[c][1] = Header /\ HasTrailer(sink[c])
            /\ ~sinkErr[c] /\ ~drainAgain[c])
            => sink[c] = Container(c)

\* C8: after close() has returned, isOpen() is false, the packet and every
\* context are released and the stream handle is null; a second close()
\* makes no codec or sink call, releases nothing and does not raise.
C8_CloseIsIdempotent ==
    /\ []((ret.op = "close" /\ ret.val = "void") => Released(ret.inst))
    /\ [][\A e \in Inst :
            (Starts({"close"}, e) /\ ret.op = "close" /\ ret.val = "void"
                /\ ret.inst = e)
            => /\ pc' = "idle"
               /\ ret'.op = "close" /\ ret'.val = "void"
               /\ io' = {}
               /\ UNCHANGED <<inst_vars, fmtState, cdcState, streamTb>>
               /\ sink' = ForgetSink
               /\ queue' = ForgetQueue
          ]_vars

\* A close() has returned on an instance that an earlier close() had
\* already released.
C8_Witness ==
    /\ pc = "idle" /\ io = {}
    /\ ret.op = "close" /\ ret.val = "void" /\ ret.pre = "released"
    /\ \E c \in CtxId : fmtState[c] = "freed"

\* C9: finalize() on a session that is not open returns false, without
\* raising and without any codec or sink call.
C9_FinalizeNotOpenIsNoOp ==
    /\ []((pc = "idle" /\ ret.op = "finalize" /\ ret.pre # "open")
            => (ret.val = "false" /\ io = {}))
    /\ [][\A e \in Inst :
            (Starts({"finalize"}, e)
                /\ (formatCtx[e] = NULL \/ codecCtx[e] = NULL))
            => /\ pc' = "idle"
               /\ ret'.val = "false"
               /\ io' = {}
               /\ UNCHANGED <<inst_vars, fmtState, cdcState, streamTb>>
               /\ sink' = ForgetSink
               /\ queue' = ForgetQueue
          ]_vars

\* finalize() has returned false on a moved-from instance, while the
\* session it gave away is open on the other instance.
C9_Witness ==
    /\ pc = "idle" /\ io = {}
    /\ ret.op = "finalize" /\ ret.val = "false" /\ ret.pre = "released"
    /\ ~converter[ret.inst]
    /\ IsOpen(OtherInst(ret.inst))

\* The fields a move transfers.
Owned(e) == <<formatCtx[e], codecCtx[e], hwDeviceCtx[e], hwFramesCtx[e],
              stream[e], packet[e], pts[e], converter[e]>>

\* C10: a move leaves the source with no format context, codec context,
\* hardware context, stream handle or packet; the destination holds what
\* the source held and its counter continues from the source's; on the
\* source, encodeFrame and finalize return false and close does nothing,
\* and none of them touches a context or the other instance.
C10_MovedFromOwnsNothing ==
    /\ []((ret.op \in {"move", "assign"} /\ ret.val = "void")
            => Released(OtherInst(ret.inst)))
    /\ [][\A d \in Inst :
            ((Completes("move", d) \/ Completes("assign", d)) /\ pc' = "idle")
            => Owned(d)' = Owned(OtherInst(d))
          ]_vars
    /\ [][\A e \in Inst :
            (Starts({"encodeFrame", "finalize", "close"}, e) /\ Released(e))
            => /\ pc' = "idle"
               /\ ret'.val = (IF ret'.op = "close" THEN "void" ELSE "false")
               /\ io' = {}
               /\ UNCHANGED <<inst_vars, fmtState, cdcState, streamTb>>
               /\ sink' = ForgetSink
               /\ queue' = ForgetQueue
          ]_vars

\* An operation has just failed on the moved-from source (its converter is
\* gone) while the destination holds the open session with the source's
\* counter value, one frame already stamped.
C10_Witness ==
    \E s \in Inst :
        /\ pc = "idle"
        /\ ret.op \in {"encodeFrame", "close"}
        /\ ret.inst = s /\ ret.pre = "released"
        /\ exists[s] /\ ~converter[s] /\ Released(s)
        /\ IsOpen(OtherInst(s))
        /\ pts[OtherInst(s)] = pts[s] /\ pts[s] > 0

\* C11: a finalize() on an open session that meets a failure (rejected
\* end-of-input signal, receive error, failed packet write, failed trailer
\* write) raises; it returns true only when it has just appended the
\* trailer to the sink, and it never returns false.
C11_FinalizeFailuresAreRaised ==
    [][\A e \in Inst :
        (Completes("finalize", e) /\ pc' = "idle" /\ ret'.pre = "open")
        => /\ ret'.val \in {"true", "raised"}
           /\ (ret'.val = "raised") <=>
                  (\/ "send_flush" \in io' /\ "receive" \notin io'
                   \/ ret'.msg \in {"flush_receive", "flush_write", "trailer"})
           /\ (ret'.val = "true") <=>
                  (/\ "write_trailer" \in io'
                   /\ sink'[formatCtx[e]] = Append(sink[formatCtx[e]], Trailer))
      ]_vars

\* A finalize() on an open session has raised because the trailer write
\* failed; the sink holds no trailer.
C11_Witness ==
    /\ pc = "idle"
    /\ ret.op = "finalize" /\ ret.val = "raised" /\ ret.msg = "trailer"
    /\ "write_trailer" \in io
    /\ ~HasTrailer(sink[formatCtx[ret.inst]])

\* C12: the packet buffer never holds a payload between two steps: it is
\* unreferenced at every receive and whenever encodeFrame or finalize is
\* left, and every write attempt, successful or failed, leaves it
\* unreferenced.
C12_PacketUnreferencedAfterWrite ==
    /\ [](\A e \in Inst : packet[e] # "ref")
    /\ [][\A e \in Inst :
            (pc \in {"enc_loop", "fin_loop"} /\ cur = e
                /\ "write_frame" \in io' /\ Len(queue'[codecCtx[e]])
                                              < Len(queue[codecCtx[e]]))
            => packet'[e] = "empty"
          ]_vars

\* A flushed packet has failed to write, finalize has raised, and the
\* packet buffer is unreferenced.
C12_Witness ==
    /\ pc = "idle"
    /\ ret.op = "finalize" /\ ret.val = "raised" /\ ret.msg = "flush_write"
    /\ packet[ret.inst] = "empty"

\* Position of call x in a sequence of calls (0: not made) and how many
\* times it was made.
Pos(q, x) == IF \E k \in 1..Len(q) : q[k] = x
             THEN CHOOSE k \in 1..Len(q) : q[k] = x /\ \A j \in 1..(k - 1) : q[j] # x
             ELSE 0
Count(q, x) == Cardinality({k \in 1..Len(q) : q[k] = x})

\* Call b was made only after call a.
Before(q, a, b) == Pos(q, b) # 0 => (Pos(q, a) # 0 /\ Pos(q, a) < Pos(q, b))

\* C13: initialize opens the sink, runs the hardware hook, resolves the
\* codec, opens the codec context, creates the stream, copies the codec
\* parameters and writes the header, in that order; the parameters are
\* copied at most once, exactly once when the header is written, and before
\* it; a sink holds at most one header, ahead of every packet and trailer.
C13_InitializeStepOrder ==
    /\ Before(steps, "alloc_output_context", "initHWAccel")
    /\ Before(steps, "initHWAccel", "find_encoder")
    /\ Before(steps, "find_encoder", "codec_open")
    /\ Before(steps, "codec_open", "new_stream")
    /\ Before(steps, "new_stream", "copy_parameters")
    /\ Before(steps, "copy_parameters", "write_header")
    /\ Count(steps, "copy_parameters") <= 1
    /\ Count(steps, "write_header") <= 1
    /\ (Pos(steps, "write_header") # 0 => Count(steps, "copy_parameters") = 1)
    /\ ("write_header" \in io => Pos(steps, "write_header") # 0)
    /\ \A c \in CtxId : \A k \in 1..Len(sink[c]) :
            sink[c][k] = Header => k = 1

\* An initialize has run to the end: all its calls were made, the header
\* write last, and the sink holds the header alone.
C13_Witness ==
    /\ pc = "idle"
    /\ ret.op = "initialize" /\ ret.val = "void"
    /\ Len(steps) = 10 /\ steps[10] = "write_header"
    /\ sink[formatCtx[ret.inst]] = <<Header>>

\* Largest timestamp for which the rescale is compared with the exact
\* quotient.
MaxTs == 40

\* Number of packets among the first k entries of a sink.
PacketsUpTo(log, k) == Cardinality({j \in 1..k : log[j].kind = "packet"})

\* r is a * dstDen / srcDen rounded to a nearest integer, and is that
\* quotient itself when srcDen divides dstDen.
IsRescaled(r, a, srcDen, dstDen) ==
    LET d == r * srcDen - a * dstDen
    IN  /\ 2 * (IF d < 0 THEN -d ELSE d) <= srcDen
        /\ (dstDen % srcDen = 0 => r = a * (dstDen \div srcDen))

\* C14: every packet in a sink carries, as pts and as dts, the timestamp of
\* its frame rescaled from the codec time base 1/Fps to the stream time
\* base: the nearest integer, and the exact product when the stream
\* denominator is a multiple of Fps; av_rescale_q gives that value for
\* every timestamp up to MaxTs.
C14_RescaleIsExact ==
    /\ \A c \in CtxId : \A k \in 1..Len(sink[c]) :
            sink[c][k].kind = "packet" =>
                LET a == accepted[c][PacketsUpTo(sink[c], k)]
                IN  /\ sink[c][k].dts = sink[c][k].pts
                    /\ IsRescaled(sink[c][k].pts, a, Fps, streamTb[c])
    /\ \A a \in 0..MaxTs : \A d \in RescaleDens :
            IsRescaled(av_rescale_q(a, Fps, d), a, Fps, d)

\* The packet of the frame stamped 1 lies in a sink whose stream time base
\* is 1/(3000 * Fps), with pts and dts 3000.
C14_Witness ==
    \E c \in CtxId : \E k \in 1..Len(sink[c]) :
        /\ streamTb[c] = 3000 * Fps
        /\ Len(accepted[c]) >= 2 /\ accepted[c][2] = 1
        /\ sink[c][k] = Packet(3000, 3000)

\* C15: when close() is left, by return or by exception, isOpen() is false
\* and the packet, the codec context and the format context are released.
C15_CloseAlwaysTearsDown ==
    (pc = "idle" /\ ret.op = "close")
        => /\ ~IsOpen(ret.inst)
           /\ packet[ret.inst] = "null"
           /\ codecCtx[ret.inst] = NULL /\ formatCtx[ret.inst] = NULL

\* C16: every pass of the receive loop of encodeFrame and of the flush loop
\* of finalize either ends the call or takes one buffered packet from the
\* codec, so a call makes at most one more receive than the codec has
\* packets; with the caller's thread running, every started call ends.
C16_CallsTerminate ==
    /\ [][(pc \in {"enc_loop", "fin_loop"})
            => (\/ pc' \in {"idle", "terminated"}
                \/ Len(queue'[codecCtx[cur]]) < Len(queue[codecCtx[cur]]))
          ]_vars
    /\ (pc \in {"enc_loop", "fin_loop"}) ~> (pc \in {"idle", "terminated"})

\* A finalize() has ended although the draining codec answered
\* need-more-input to a receive.
C16_Witness ==
    /\ pc = "idle"
    /\ ret.op = "finalize" /\ ret.val = "true"
    /\ "receive" \in io
    /\ drainAgain[codecCtx[ret.inst]]

\* C17: whenever isOpen() is true the packet buffer is allocated and the
\* stream handle is non-null.
C17_OpenHasPacketAndStream ==
    \A e \in Inst :
        (exists[e] /\ IsOpen(e)) => (packet[e] # "null" /\ stream[e] # NULL)

\* C18: between operations the counter of an open session equals the number
\* of encodeFrame calls on that session whose conversion succeeded (the
\* frames handed to avcodec_send_frame, accepted or rejected).
C18_CounterCountsConversions ==
    \A e \in Inst :
        (pc = "idle" /\ exists[e] /\ IsOpen(e))
            => pts[e] = Len(submitted[codecCtx[e]])

\* What does hold of the counter: a step of encodeFrame advances it by the
\* number of frames it hands to the codec (one after a successful
\* conversion, rejected or not; none otherwise), and initialize, finalize
\* and close leave it alone.
CounterAdvancesOncePerConversion ==
    [][\A e \in Inst :
        (pc = "idle" /\ pc' # "terminated" /\ exists[e] /\ exists'[e]
            /\ codecCtx'[e] = codecCtx[e] /\ codecCtx[e] # NULL)
        => pts'[e] - pts[e]
              = Len(submitted'[codecCtx[e]]) - Len(ForgetSubmitted[codecCtx[e]])
      ]_vars

\* The operations of a VideoReader that run close().
RdCloses == {"close", "exit", "dtor"}

\* C19: once close() has run on a successfully constructed VideoReader
\* (called directly, from exit() or from the destructor), it has called
\* the converter's synchronize() and then closed the decoder, each exactly
\* once however often close() ran.
C19_CloseSynchronizesFirst ==
    (rdRet.op \in RdCloses)
        => calls = <<"synchronize", "decoder_close">>

\* What does hold of close(): it closes the decoder exactly once and never
\* reaches the converter.
CloseOnlyClosesDecoder ==
    (rdRet.op \in RdCloses) => calls = <<"decoder_close">>

\* An index as setRange reads it: a negative one counts from totalFrames.
AdjustedIndex(x) == IF x < 0 THEN totalFrames + x ELSE x

\* The range of the last successful setRange(start, end).
AskedStart == AdjustedIndex(asked[1])
AskedEnd == AdjustedIndex(asked[2])

\* C20: setRange(start, end) reads negative indices as offsets from
\* totalFrames and end as exclusive. A setRange that raises leaves
\* start_frame and end_frame unchanged; one that succeeds had an adjusted
\* start >= 0 and an adjusted end > start, and the iteration that follows
\* (iter(), then next() repeatedly) begins at the adjusted start, returns at
\* most end - start frames, raises stop-iteration once it has returned that
\* many, and never moves currentIndex past end.
C20_SetRangeBoundsIteration ==
    /\ [][/\ (rdRet'.op = "setRange" /\ rdRet'.val = "raised")
                => UNCHANGED <<start_frame, end_frame>>
          /\ (rdRet'.op = "setRange" /\ rdRet'.val = "void")
                => (AskedStart' >= 0 /\ AskedEnd' > AskedStart'
                    /\ start_frame' = AskedStart')
          /\ (rdRet'.op = "iter" /\ rdRet'.val = "void" /\ asked # <<>>)
                => currentIndex' = AskedStart
          /\ (rdPc = "live" /\ iterating /\ asked # <<>>
                /\ returned = AskedEnd - AskedStart
                /\ rdRet'.op = "next" /\ rdRet' # rdRet)
                => (rdRet'.val = "stop" /\ returned' = returned)
         ]_vars
    /\ []((iterating /\ asked # <<>>)
            => (/\ returned <= AskedEnd - AskedStart
                /\ currentIndex = AskedStart + returned
                /\ currentIndex <= AskedEnd))

\* A range given by two negative indices has been iterated to its end: the
\* reader returned end - start frames (two or more) and then raised
\* stop-iteration.
C20_Witness ==
    /\ rdPc = "live" /\ iterating /\ asked # <<>>
    /\ asked[1] < 0 /\ asked[2] < 0
    /\ returned = AskedEnd - AskedStart
    /\ returned >= 2
    /\ currentIndex = AskedEnd
    /\ rdRet = RdResult("next", "stop")
====
